---- MODULE Spec2Model ----
(***************************************************************************)
(* ALF: the array-based lock-free queue of linux/alf_queue.h.              *)
(*                                                                         *)
(* The model follows alf_mp_enqueue and alf_mc_dequeue one shared-memory   *)
(* access at a time: every ACCESS_ONCE read, every cmpxchg, every ring     *)
(* slot store or load and every tail write is one step of the calling      *)
(* thread.  Memory is sequentially consistent (cmpxchg is a full barrier,  *)
(* smp_wmb orders the slot stores before the tail write).                  *)
(***************************************************************************)
EXTENDS Integers, Sequences, FiniteSets, Bags, TLC

\* ---------------------------------------------------------------- bounds
MaxSizeLog2  == 2     \* one call at a time: ring sizes 2^1 .. 2^MaxSizeLog2
ConcSizeLog2 == 1     \* concurrent calls: ring size 2^ConcSizeLog2
NumThreads   == 3     \* CPUs calling into the queue
MaxCalls     == 4     \* concurrent calls started in one behaviour
MaxUnitCalls == 6     \* concurrent one-reference calls in one behaviour
MaxSeqCalls  == 6     \* one-at-a-time calls started in one behaviour
NumFairCpus  == 2     \* CPUs calling into the queue under fair scheduling

ENOBUFS == 105        \* the errno alf_mp_enqueue returns negated

Threads == 1..NumThreads
Sizes   == {2^k : k \in 1..MaxSizeLog2}

VARIABLES
  size,       \* q->size
  producer,   \* q->producer : [head, tail]
  consumer,   \* q->consumer : [head, tail]
  ring,       \* q->ring[0 .. size-1]
  pc,         \* per thread: where it stands in its call
  loc,        \* per thread: the arguments and locals of its call
  calls,      \* number of calls that may still start
  batch,      \* the batch sizes n the callers pass
  nextRef,    \* last reference tag handed out
  enqLog,     \* history: producer reservations, in cmpxchg order
  deqLog,     \* history: consumer reservations, in cmpxchg order
  pre,        \* history: per thread, what its call saw when it started
  fresh       \* history: slots whose last store is published and unreserved

vars == <<size, producer, consumer, ring, pc, loc, calls, batch, nextRef,
          enqLog, deqLog, pre, fresh>>

\* ------------------------------------------------------ u32 arithmetic
RECURSIVE BitAnd(_, _)
BitAnd(a, b) ==
  IF a = 0 \/ b = 0 THEN 0
  ELSE (IF a % 2 = 1 /\ b % 2 = 1 THEN 1 ELSE 0)
       + 2 * BitAnd(a \div 2, b \div 2)

\* The low 31 bits of the u32 value of x, for -2^31 <= x < 2^31.  Bit 31 of
\* a u32 never survives "& mask" because mask < size <= 2^31.
U32Low(x) == IF x >= 0 THEN x ELSE (2147483647 + x) + 1

\* mutant of min: the clamp to the caller's n is forgotten
min_unclamped(a, b) == b

\* the kernel's min()
min(a, b) == IF a < b THEN a ELSE b

mask == size - 1      \* q->mask

\* ------------------------------------------------------- introspection
alf_queue_empty == consumer.tail = producer.tail

alf_queue_count == BitAnd(U32Low(producer.tail - consumer.head), mask)

\* mutant of alf_queue_avail_space: the sacrificed slot is not subtracted
alf_queue_avail_space_nogap ==
  BitAnd(U32Low(consumer.tail - producer.head), mask)

alf_queue_avail_space ==
  BitAnd(U32Low(consumer.tail - producer.head - 1), mask)

\* ------------------------------------------------------------- helpers
\* mutant of StoreIndex: "% mask" written for "& mask"
StoreIndex_mod(p_head, i) == (p_head + i) % mask

\* __helper_alf_enqueue_store_mask: the slot iteration i = 0, 1, .. stores to
StoreIndex(p_head, i) == BitAnd(p_head + i, mask)

\* __helper_alf_dequeue_load_mask: the slot iteration i = 0, 1, .. loads from
LoadIndex(c_head, i) == BitAnd(c_head + i, mask)

\* mutant of EnqSpace: the sacrificed slot is not subtracted
EnqSpace_nogap(p_head, c_tail) == BitAnd(U32Low(c_tail - p_head), mask)

EnqSpace(p_head, c_tail) == BitAnd(U32Low(c_tail - p_head - 1), mask)

DeqElems(c_head, p_tail) == BitAnd(U32Low(p_tail - c_head), mask)

NextCursor(head, n) == BitAnd(head + n, mask)

\* ------------------------------------------------------------- history
RECURSIVE Flat(_)
Flat(log) ==
  IF log = <<>> THEN <<>> ELSE log[1].refs \o Flat(Tail(log))

RECURSIVE PublishedLen(_)
PublishedLen(log) ==
  IF log = <<>> THEN 0
  ELSE (IF log[1].pub THEN log[1].len ELSE 0) + PublishedLen(Tail(log))

RECURSIVE ReservedLen(_)
ReservedLen(log) ==
  IF log = <<>> THEN 0 ELSE log[1].len + ReservedLen(Tail(log))

AllIdle == \A t \in Threads : pc[t] = "idle"

Idle0 == [call |-> "none"]

Pre0 == [count |-> 0, space |-> 0, alone |-> FALSE, wrote |-> FALSE]

Snapshot ==
  [count |-> alf_queue_count, space |-> alf_queue_avail_space,
   alone |-> \A t \in Threads : pc[t] \in {"idle", "done"},
   wrote |-> FALSE]

\* ---------------------------------------------------------------- Init
\* alf_queue_alloc: a ring of `size` slots, "the empty (and initial state)
\* is when consumer have reached up with producer": all cursors zero.
InitQueue(sizes, unit, budget) ==
  /\ size \in sizes
  /\ batch = IF unit THEN {1} ELSE 0..size
  /\ producer = [head |-> 0, tail |-> 0]
  /\ consumer = [head |-> 0, tail |-> 0]
  /\ ring = [s \in 0..(size - 1) |-> 0]    \* no reference is tagged 0
  /\ pc = [t \in Threads |-> "idle"]
  /\ loc = [t \in Threads |-> Idle0]
  /\ calls = budget
  /\ nextRef = 0
  /\ enqLog = <<>>
  /\ deqLog = <<>>
  /\ pre = [t \in Threads |-> Pre0]
  /\ fresh = {}

Init == InitQueue({2^ConcSizeLog2}, FALSE, MaxCalls)

UnitInit == InitQueue({2^ConcSizeLog2}, TRUE, MaxUnitCalls)

SeqInit == InitQueue(Sizes, FALSE, MaxSeqCalls)

\* idle threads are interchangeable: the lowest-numbered one takes the call
FirstIdle(t) == pc[t] = "idle" /\ \A u \in 1..(t - 1) : pc[u] # "idle"

\* a call starting marks every call in flight as not running alone
StartPre(t) ==
  [u \in Threads |->
     IF u = t THEN Snapshot
     ELSE IF pc[u] # "idle" THEN [pre[u] EXCEPT !.alone = FALSE]
     ELSE pre[u]]

Wrote(t) == [pre EXCEPT ![t].wrote = TRUE]

\* the call of thread t returns r: the caller holds n, ptr[] and r
Return(t, r) ==
  /\ pc' = [pc EXCEPT ![t] = "done"]
  /\ loc' = [loc EXCEPT ![t] =
       [call |-> loc[t].call, n |-> loc[t].n, ptr |-> loc[t].ptr,
        ret |-> r]]

\* the caller goes on; its thread is free for the next call
Leave(t) ==
  /\ pc[t] = "done"
  /\ pc' = [pc EXCEPT ![t] = "idle"]
  /\ loc' = [loc EXCEPT ![t] = Idle0]
  /\ pre' = [pre EXCEPT ![t] = Pre0]
  /\ UNCHANGED <<fresh, size, producer, consumer, ring, calls, batch, nextRef,
                 enqLog, deqLog>>

\* ------------------------------------------------------ alf_mp_enqueue
EnqStart(t, n) ==
  /\ FirstIdle(t)
  /\ calls > 0
  /\ calls' = calls - 1
  /\ loc' = [loc EXCEPT ![t] =
       [call |-> "enqueue", n |-> n, ptr |-> <<>>,
        p_head |-> 0, c_tail |-> 0, p_next |-> 0, i |-> 0]]
  /\ pc' = [pc EXCEPT ![t] = "e_head"]
  /\ pre' = StartPre(t)
  /\ UNCHANGED <<fresh, size, producer, consumer, ring, batch, nextRef, enqLog, deqLog>>

\* p_head = ACCESS_ONCE(q->producer.head)
EnqReadHead(t) ==
  /\ pc[t] = "e_head"
  /\ loc' = [loc EXCEPT ![t].p_head = producer.head]
  /\ pc' = [pc EXCEPT ![t] = "e_tail"]
  /\ UNCHANGED <<fresh, size, producer, consumer, ring, calls, batch, nextRef,
                 enqLog, deqLog, pre>>

\* mutant of EnqReadTail: a bulk that does not fit reserves the part that
\* does before it fails
EnqReadTail_partial(t) ==
  /\ pc[t] = "e_tail"
  /\ LET l     == loc[t]
         space == EnqSpace(l.p_head, consumer.tail)
     IN  IF l.n > space
         THEN /\ Return(t, 0 - ENOBUFS)
              /\ producer' = [producer EXCEPT
                                !.head = NextCursor(l.p_head, space)]
              /\ pre' = Wrote(t)
         ELSE /\ loc' = [loc EXCEPT ![t].c_tail = consumer.tail,
                                    ![t].p_next = NextCursor(l.p_head, l.n)]
              /\ pc' = [pc EXCEPT ![t] = "e_cas"]
              /\ UNCHANGED <<producer, pre>>
  /\ UNCHANGED <<fresh, size, consumer, ring, calls, batch, nextRef,
                 enqLog, deqLog>>

\* c_tail = ACCESS_ONCE(q->consumer.tail); the space check; p_next
EnqReadTail(t) ==
  /\ pc[t] = "e_tail"
  /\ LET l     == loc[t]
         space == EnqSpace(l.p_head, consumer.tail)
     IN  IF l.n > space
         THEN Return(t, 0 - ENOBUFS)
         ELSE /\ loc' = [loc EXCEPT ![t].c_tail = consumer.tail,
                                    ![t].p_next = NextCursor(l.p_head, l.n)]
              /\ pc' = [pc EXCEPT ![t] = "e_cas"]
  /\ UNCHANGED <<fresh, size, producer, consumer, ring, calls, batch, nextRef,
                 enqLog, deqLog, pre>>

\* The references of a batch are opaque and distinct, and nobody reads
\* ptr[] before the reservation: they are tagged in reservation order.
Tags(n) == [k \in 1..n |-> nextRef + k]

\* cmpxchg(&q->producer.head, p_head, p_next)
EnqCas(t) ==
  /\ pc[t] = "e_cas"
  /\ LET l == loc[t]
     IN  IF producer.head = l.p_head
         THEN /\ producer' = [producer EXCEPT !.head = l.p_next]
              /\ pc' = [pc EXCEPT ![t] = "e_store"]
              /\ loc' = [loc EXCEPT ![t].ptr = Tags(l.n)]
              /\ nextRef' = nextRef + l.n
              /\ enqLog' = Append(enqLog,
                   [t |-> t, start |-> l.p_head, len |-> l.n,
                    refs |-> Tags(l.n), pub |-> FALSE])
              /\ pre' = Wrote(t)
         ELSE /\ pc' = [pc EXCEPT ![t] = "e_head"]
              /\ UNCHANGED <<producer, loc, nextRef, enqLog, pre>>
  /\ UNCHANGED <<fresh, size, consumer, ring, calls, batch, deqLog>>

\* one iteration of __helper_alf_enqueue_store_mask
EnqStore(t) ==
  /\ pc[t] = "e_store"
  /\ loc[t].i < loc[t].n
  /\ ring' = [ring EXCEPT ![StoreIndex(loc[t].p_head, loc[t].i)] =
                             loc[t].ptr[loc[t].i + 1]]
  /\ loc' = [loc EXCEPT ![t].i = @ + 1]
  /\ pre' = Wrote(t)
  /\ fresh' = fresh \ {StoreIndex(loc[t].p_head, loc[t].i)}
  /\ UNCHANGED <<size, producer, consumer, pc, calls, batch, nextRef,
                 enqLog, deqLog>>

\* while (ACCESS_ONCE(q->producer.tail) != p_head) cpu_relax();
EnqWait(t) ==
  /\ pc[t] = "e_store"
  /\ loc[t].i = loc[t].n
  /\ producer.tail = loc[t].p_head
  /\ pc' = [pc EXCEPT ![t] = "e_pub"]
  /\ UNCHANGED <<fresh, size, producer, consumer, ring, loc, calls, batch, nextRef,
                 enqLog, deqLog, pre>>

MarkPub(log, t) ==
  [k \in 1..Len(log) |->
     IF log[k].t = t /\ ~log[k].pub THEN [log[k] EXCEPT !.pub = TRUE]
     ELSE log[k]]

\* ACCESS_ONCE(q->producer.tail) = p_next; return n
EnqPublish(t) ==
  /\ pc[t] = "e_pub"
  /\ producer' = [producer EXCEPT !.tail = loc[t].p_next]
  /\ Return(t, loc[t].n)
  /\ enqLog' = MarkPub(enqLog, t)
  /\ pre' = Wrote(t)
  /\ fresh' = fresh \cup {StoreIndex(loc[t].p_head, i) : i \in 0..(loc[t].n - 1)}
  /\ UNCHANGED <<size, consumer, ring, calls, batch, nextRef, deqLog>>

\* ------------------------------------------------------ alf_mc_dequeue
DeqStart(t, n) ==
  /\ FirstIdle(t)
  /\ calls > 0
  /\ calls' = calls - 1
  /\ loc' = [loc EXCEPT ![t] =
       [call |-> "dequeue", n |-> n, ptr |-> <<>>,
        c_head |-> 0, p_tail |-> 0, elems |-> 0, c_next |-> 0, i |-> 0]]
  /\ pc' = [pc EXCEPT ![t] = "d_head"]
  /\ pre' = StartPre(t)
  /\ UNCHANGED <<fresh, size, producer, consumer, ring, batch, nextRef, enqLog, deqLog>>

\* c_head = ACCESS_ONCE(q->consumer.head)
DeqReadHead(t) ==
  /\ pc[t] = "d_head"
  /\ loc' = [loc EXCEPT ![t].c_head = consumer.head]
  /\ pc' = [pc EXCEPT ![t] = "d_tail"]
  /\ UNCHANGED <<fresh, size, producer, consumer, ring, calls, batch, nextRef,
                 enqLog, deqLog, pre>>

\* p_tail = ACCESS_ONCE(q->producer.tail); elems; the empty check; c_next
DeqReadTail(t) ==
  /\ pc[t] = "d_tail"
  /\ LET l     == loc[t]
         avail == DeqElems(l.c_head, producer.tail)
         elems == min(avail, l.n)
     IN  IF avail = 0
         THEN Return(t, 0)
         ELSE /\ loc' = [loc EXCEPT ![t].p_tail = producer.tail,
                                    ![t].elems = elems,
                                    ![t].c_next = NextCursor(l.c_head, elems)]
              /\ pc' = [pc EXCEPT ![t] = "d_cas"]
  /\ UNCHANGED <<fresh, size, producer, consumer, ring, calls, batch, nextRef,
                 enqLog, deqLog, pre>>

\* cmpxchg(&q->consumer.head, c_head, c_next)
DeqCas(t) ==
  /\ pc[t] = "d_cas"
  /\ LET l == loc[t]
     IN  IF consumer.head = l.c_head
         THEN /\ consumer' = [consumer EXCEPT !.head = l.c_next]
              /\ pc' = [pc EXCEPT ![t] = "d_load"]
              /\ deqLog' = Append(deqLog,
                   [t |-> t, start |-> l.c_head, len |-> l.elems,
                    refs |-> <<>>, pub |-> FALSE])
              /\ pre' = Wrote(t)
              /\ fresh' = fresh \ {LoadIndex(l.c_head, i) : i \in 0..(l.elems - 1)}
         ELSE /\ pc' = [pc EXCEPT ![t] = "d_head"]
              /\ UNCHANGED <<consumer, deqLog, pre, fresh>>
  /\ UNCHANGED <<size, producer, ring, loc, calls, batch, nextRef, enqLog>>

LogLoad(log, t, ref) ==
  [k \in 1..Len(log) |->
     IF log[k].t = t /\ ~log[k].pub
     THEN [log[k] EXCEPT !.refs = Append(@, ref)]
     ELSE log[k]]

\* mutant of DeqLoad: the slot is cleared once it has been loaded
DeqLoad_clear(t) ==
  /\ pc[t] = "d_load"
  /\ loc[t].i < loc[t].elems
  /\ LET ref == ring[LoadIndex(loc[t].c_head, loc[t].i)]
     IN  /\ loc' = [loc EXCEPT ![t].ptr = Append(@, ref), ![t].i = @ + 1]
         /\ deqLog' = LogLoad(deqLog, t, ref)
  /\ ring' = [ring EXCEPT ![LoadIndex(loc[t].c_head, loc[t].i)] = 0]
  /\ UNCHANGED <<fresh, size, producer, consumer, pc, calls, batch, nextRef,
                 enqLog, pre>>

\* one iteration of __helper_alf_dequeue_load_mask
DeqLoad(t) ==
  /\ pc[t] = "d_load"
  /\ loc[t].i < loc[t].elems
  /\ LET ref == ring[LoadIndex(loc[t].c_head, loc[t].i)]
     IN  /\ loc' = [loc EXCEPT ![t].ptr = Append(@, ref), ![t].i = @ + 1]
         /\ deqLog' = LogLoad(deqLog, t, ref)
  /\ UNCHANGED <<fresh, size, producer, consumer, ring, pc, calls, batch, nextRef,
                 enqLog, pre>>

\* while (ACCESS_ONCE(q->consumer.tail) != c_head) cpu_relax();
DeqWait(t) ==
  /\ pc[t] = "d_load"
  /\ loc[t].i = loc[t].elems
  /\ consumer.tail = loc[t].c_head
  /\ pc' = [pc EXCEPT ![t] = "d_pub"]
  /\ UNCHANGED <<fresh, size, producer, consumer, ring, loc, calls, batch, nextRef,
                 enqLog, deqLog, pre>>

\* ACCESS_ONCE(q->consumer.tail) = c_next; return elems
DeqPublish(t) ==
  /\ pc[t] = "d_pub"
  /\ consumer' = [consumer EXCEPT !.tail = loc[t].c_next]
  /\ Return(t, loc[t].elems)
  /\ deqLog' = MarkPub(deqLog, t)
  /\ pre' = Wrote(t)
  /\ UNCHANGED <<fresh, size, producer, ring, calls, batch, nextRef, enqLog>>

\* ------------------------------------------------------- specifications
Step(t) ==
  \/ EnqReadHead(t)
  \/ EnqReadTail(t)
  \/ EnqCas(t)
  \/ EnqStore(t)
  \/ EnqWait(t)
  \/ EnqPublish(t)
  \/ DeqReadHead(t)
  \/ DeqReadTail(t)
  \/ DeqCas(t)
  \/ DeqLoad(t)
  \/ DeqWait(t)
  \/ DeqPublish(t)
  \/ Leave(t)

\* any thread starts or continues a call at any time
Next ==
  \/ \E t \in Threads : \E n \in batch : EnqStart(t, n)
  \/ \E t \in Threads : \E n \in batch : DeqStart(t, n)
  \/ \E t \in Threads : Step(t)

Spec == Init /\ [][Next]_vars

\* the same threads and steps, every call passing n = 1
UnitSpec == UnitInit /\ [][Next]_vars

\* calls issued one at a time: no call in flight when the next starts
SeqNext ==
  \/ \E t \in Threads : \E n \in batch : AllIdle /\ EnqStart(t, n)
  \/ \E t \in Threads : \E n \in batch : AllIdle /\ DeqStart(t, n)
  \/ \E t \in Threads : Step(t)

SeqSpec == SeqInit /\ [][SeqNext]_vars

\* Every CPU inside a call keeps executing it: the loops of lines 194,
\* 204 and 243 only spin (cpu_relax), they never sleep or yield.
FairCpus == 1..NumFairCpus

FairNext ==
  \/ \E t \in FairCpus : \E n \in batch : EnqStart(t, n)
  \/ \E t \in FairCpus : \E n \in batch : DeqStart(t, n)
  \/ \E t \in FairCpus : Step(t)

FairSpec ==
  Init /\ [][FairNext]_vars /\ \A t \in FairCpus : WF_vars(Step(t))

\* ------------------------------ alf_queue_empty / _count / _avail_space
ProbeCalls == {"empty", "count", "avail_space"}

\* a CPU calls one of the three; each reads two cursors, one after the other
ProbeStart(t, f) ==
  /\ FirstIdle(t)
  /\ loc' = [loc EXCEPT ![t] = [call |-> f, n |-> 0, ptr |-> <<>>, first |-> 0]]
  /\ pc' = [pc EXCEPT ![t] = "i_first"]
  /\ UNCHANGED <<fresh, size, producer, consumer, ring, calls, batch, nextRef,
                 enqLog, deqLog, pre>>

\* the first ACCESS_ONCE of the function: consumer.tail (line 131),
\* consumer.head (line 146) or producer.head (line 157)
ProbeFirst(t) ==
  /\ pc[t] = "i_first"
  /\ loc' = [loc EXCEPT ![t].first =
       IF loc[t].call = "empty" THEN consumer.tail
       ELSE IF loc[t].call = "count" THEN consumer.head
       ELSE producer.head]
  /\ pc' = [pc EXCEPT ![t] = "i_second"]
  /\ UNCHANGED <<fresh, size, producer, consumer, ring, calls, batch, nextRef,
                 enqLog, deqLog, pre>>

\* the second ACCESS_ONCE, the computation and the return
ProbeSecond(t) ==
  /\ pc[t] = "i_second"
  /\ Return(t, IF loc[t].call = "empty" THEN loc[t].first = producer.tail
               ELSE IF loc[t].call = "count"
                    THEN DeqElems(loc[t].first, producer.tail)
               ELSE EnqSpace(loc[t].first, consumer.tail))
  /\ UNCHANGED <<fresh, size, producer, consumer, ring, calls, batch, nextRef,
                 enqLog, deqLog, pre>>

\* two CPUs enqueue, dequeue and inspect the queue at any time
ProbeNext ==
  \/ \E t \in FairCpus : \E n \in batch : EnqStart(t, n)
  \/ \E t \in FairCpus : \E n \in batch : DeqStart(t, n)
  \/ \E t \in FairCpus : \E f \in ProbeCalls : ProbeStart(t, f)
  \/ \E t \in FairCpus : Step(t)
  \/ \E t \in FairCpus : ProbeFirst(t)
  \/ \E t \in FairCpus : ProbeSecond(t)

ProbeSpec == Init /\ [][ProbeNext]_vars

\* ------------------------------------------- the store / load helpers
\* __helper_alf_enqueue_store_mask as a whole: ring[slot] = ptr[k]
store_mask(p_head, n) ==
  [k \in 1..n |-> [slot |-> StoreIndex(p_head, k - 1), k |-> k]]

\* __helper_alf_enqueue_store_simple: "index" is used as it stands and
\* compared with q->size after the store; for (..; i++, index++)
RECURSIVE store_simple_from(_, _, _)
store_simple_from(index, i, n) ==
  IF i >= n THEN <<>>
  ELSE <<[slot |-> index, k |-> i + 1]>>
       \o store_simple_from((IF index = size THEN 0 ELSE index) + 1, i + 1, n)

store_simple(p_head, n) == store_simple_from(p_head, 0, n)

\* what a load of ring[index] yields: index `size` is the word behind the
\* ring, whose content (junk) is not the queue's
RingWord(index, junk) == IF index \in DOMAIN ring THEN ring[index] ELSE junk

\* __helper_alf_dequeue_load_mask as a whole: ptr[k] = ring[slot]
load_mask(c_head, elems) ==
  [k \in 1..elems |-> ring[LoadIndex(c_head, k - 1)]]

\* __helper_alf_dequeue_load_simple
RECURSIVE load_simple_from(_, _, _, _)
load_simple_from(index, i, elems, junk) ==
  IF i >= elems THEN <<>>
  ELSE <<RingWord(index, junk)>>
       \o load_simple_from((IF index = size THEN 0 ELSE index) + 1, i + 1,
                           elems, junk)

load_simple(c_head, elems, junk) == load_simple_from(c_head, 0, elems, junk)

\* memcpy(dst, src, cnt * sizeof(ptr[0])): cnt words go from src.. to
\* dst..; cnt is a u32, so a negative difference is a count of 2^31 words
\* or more
memcpy(dst, src, cnt) == [dst |-> dst, src |-> src, cnt |-> U32Low(cnt)]

\* mutant of store_memcpy: the split is made where the ring ends
store_memcpy_split(p_head, c_tail, n) ==
  LET dif == min(size - p_head, n)
  IN  <<memcpy(p_head, 0, dif), memcpy(0, dif, n - dif)>>

\* __helper_alf_enqueue_store_memcpy: the memcpy calls it makes, dst an
\* index of ring[], src an index of ptr[]
store_memcpy(p_head, c_tail, n) ==
  IF p_head >= c_tail
  THEN <<memcpy(p_head, 0, n)>>
  ELSE LET dif == size - c_tail
       IN  (IF dif # 0 THEN <<memcpy(p_head, 0, dif)>> ELSE <<>>)
           \o <<memcpy(0, dif, c_tail - dif)>>

\* __helper_alf_dequeue_load_memcpy: the memcpy calls it makes, dst an
\* index of ptr[], src an index of ring[]
load_memcpy(c_head, p_tail, elems) ==
  IF p_tail > c_head
  THEN <<memcpy(0, c_head, elems)>>
  ELSE LET dif == min(size - c_head, elems)
       IN  (IF dif # 0 THEN <<memcpy(0, c_head, dif)>> ELSE <<>>)
           \o <<memcpy(dif, 0, p_tail - dif)>>

\* A helper call on its own: the arguments alf_mp_enqueue / alf_mc_dequeue
\* can pass it (n <= space, 1 <= available, elems <= available).
HelperInit ==
  /\ size \in Sizes
  /\ batch = 0..size
  /\ producer = [head |-> 0, tail |-> 0]
  /\ consumer = [head |-> 0, tail |-> 0]
  /\ pc = [t \in Threads |-> IF t = 1 THEN "h_call" ELSE "idle"]
  /\ \E head, tail \in 0..(size - 1) :
       \/ /\ ring = [s \in 0..(size - 1) |-> 0]
          /\ \E n \in 0..EnqSpace(head, tail) :
               loc = [t \in Threads |->
                        IF t = 1
                        THEN [call |-> "store", head |-> head, tail |-> tail,
                              n |-> n]
                        ELSE Idle0]
       \/ /\ ring = [s \in 0..(size - 1) |-> s + 1]
          /\ DeqElems(head, tail) > 0
          /\ \E n \in 0..DeqElems(head, tail) :
               loc = [t \in Threads |->
                        IF t = 1
                        THEN [call |-> "load", head |-> head, tail |-> tail,
                              n |-> n]
                        ELSE Idle0]
  /\ calls = 0
  /\ nextRef = 0
  /\ enqLog = <<>>
  /\ deqLog = <<>>
  /\ pre = [t \in Threads |-> Pre0]
  /\ fresh = {}

\* the three store helpers applied to the same arguments
HelperStore(t) ==
  /\ pc[t] = "h_call" /\ loc[t].call = "store"
  /\ pc' = [pc EXCEPT ![t] = "h_done"]
  /\ loc' = [loc EXCEPT ![t] =
       [call |-> "store", head |-> loc[t].head, tail |-> loc[t].tail,
        n |-> loc[t].n,
        masked |-> store_mask(loc[t].head, loc[t].n),
        simple |-> store_simple(loc[t].head, loc[t].n),
        copies |-> store_memcpy(loc[t].head, loc[t].tail, loc[t].n)]]
  /\ UNCHANGED <<fresh, size, producer, consumer, ring, calls, batch, nextRef,
                 enqLog, deqLog, pre>>

\* the three load helpers applied to the same arguments and the same ring
HelperLoad(t) ==
  /\ pc[t] = "h_call" /\ loc[t].call = "load"
  /\ pc' = [pc EXCEPT ![t] = "h_done"]
  /\ \E junk \in 0..size :
       loc' = [loc EXCEPT ![t] =
         [call |-> "load", head |-> loc[t].head, tail |-> loc[t].tail,
          n |-> loc[t].n,
          masked |-> load_mask(loc[t].head, loc[t].n),
          simple |-> load_simple(loc[t].head, loc[t].n, junk),
          copies |-> load_memcpy(loc[t].head, loc[t].tail, loc[t].n)]]
  /\ UNCHANGED <<fresh, size, producer, consumer, ring, calls, batch, nextRef,
                 enqLog, deqLog, pre>>

HelperNext ==
  \/ \E t \in Threads : HelperStore(t)
  \/ \E t \in Threads : HelperLoad(t)

HelperSpec == HelperInit /\ [][HelperNext]_vars

\* ------------------------------------------------------ claim vocabulary
\* no call in flight: every thread is outside a call or has returned
Quiet == \A t \in Threads : pc[t] \in {"idle", "done"}

\* the ring slots a producer / consumer reservation covers
StoreSlots(e) == {StoreIndex(e.start, i) : i \in 0..(e.len - 1)}
LoadSlots(e)  == {LoadIndex(e.start, i) : i \in 0..(e.len - 1)}

\* the number of references reserved before the k-th reservation of a log
Before(log, k) == ReservedLen(SubSeq(log, 1, k - 1))

\* the reservation thread t holds between its cmpxchg and its tail write
Mine(log, t) == CHOOSE k \in 1..Len(log) : log[k].t = t /\ ~log[k].pub

Range(f) == {f[x] : x \in DOMAIN f}

SeqToBag(q) == [x \in Range(q) |-> Cardinality({i \in DOMAIN q : q[i] = x})]

\* references accepted by enqueues and not yet handed to a dequeue
Held == ReservedLen(enqLog) - ReservedLen(deqLog)

Returned(t, call) == pc[t] = "done" /\ loc[t].call = call

\* ------------------------------------------------------------------ C1
\* C1: the i-th reference dequeued (consumer cmpxchg order, batch order
\* inside) is the i-th reference enqueued (producer cmpxchg order).
C1_Fifo ==
  \A k \in 1..Len(deqLog) : \A j \in 1..Len(deqLog[k].refs) :
    /\ Before(deqLog, k) + j <= Len(Flat(enqLog))
    /\ deqLog[k].refs[j] = Flat(enqLog)[Before(deqLog, k) + j]

\* ------------------------------------------------------------------ C2
\* C2: at quiescence with the queue drained, the references returned by
\* the dequeues are, as a multiset, the references accepted by the enqueues.
C2_NoLossNoDup ==
  (Quiet /\ alf_queue_empty /\ alf_queue_count = 0)
    => SeqToBag(Flat(deqLog)) = SeqToBag(Flat(enqLog))

\* ------------------------------------------------------------------ C3
Occupied == ReservedLen(enqLog) - PublishedLen(deqLog)

\* C3: positions reserved by producers and not yet released by a
\* consumer.tail publish number between 0 and size - 1.
C3_Occupancy == Occupied >= 0 /\ Occupied <= size - 1

\* ------------------------------------------------------------------ C4
\* C4: an alf_mp_enqueue that returned -ENOBUFS wrote no cursor and no
\* slot; if no other call ran meanwhile, count and space are what they
\* were when it started.
C4_AllOrNothing ==
  \A t \in Threads :
    (Returned(t, "enqueue") /\ loc[t].ret = 0 - ENOBUFS)
      => /\ ~pre[t].wrote
         /\ pre[t].alone =>
              /\ alf_queue_count = pre[t].count
              /\ alf_queue_avail_space = pre[t].space

\* a failed enqueue that ran alone on a ring holding a reference
C4_Witness ==
  \E t \in Threads :
    /\ Returned(t, "enqueue") /\ loc[t].ret = 0 - ENOBUFS
    /\ pre[t].alone /\ loc[t].n < size /\ pre[t].count > 0

\* ------------------------------------------------------------------ C5
\* C5: one call at a time, k references held: enqueue of n returns n if
\* n <= size - 1 - k and -ENOBUFS otherwise.
C5_Capacity ==
  \A t \in Threads :
    Returned(t, "enqueue")
      => \/ /\ loc[t].ret = loc[t].n
            /\ loc[t].n <= size - 1 - (Held - loc[t].n)
         \/ /\ loc[t].ret = 0 - ENOBUFS
            /\ loc[t].n > size - 1 - Held

\* size 4, cursors off zero, three single enqueues held, the fourth refused
C5_Witness ==
  \E t \in Threads :
    /\ Returned(t, "enqueue") /\ loc[t].ret = 0 - ENOBUFS /\ loc[t].n = 1
    /\ size = 4 /\ Held = 3 /\ consumer.head # 0 /\ Len(enqLog) >= 3
    /\ \A k \in (Len(enqLog) - 2)..Len(enqLog) : enqLog[k].len = 1

\* ------------------------------------------------------------------ C6
\* C6: one call at a time, k references held: dequeue of n >= 1 returns
\* min(k, n), hands out the min(k, n) oldest references in enqueue order
\* and leaves count() = k - min(k, n); on an empty queue it returns 0 and
\* writes no cursor; the result is never negative.
C6_PartialDequeue ==
  \A t \in Threads :
    Returned(t, "dequeue")
      => LET r     == loc[t].ret
             k     == Held + r
             taken == ReservedLen(deqLog)
         IN  /\ r >= 0
             /\ k = 0 => (r = 0 /\ ~pre[t].wrote)
             /\ loc[t].n >= 1 =>
                  /\ r = (IF k < loc[t].n THEN k ELSE loc[t].n)
                  /\ taken <= Len(Flat(enqLog))
                  /\ loc[t].ptr = SubSeq(Flat(enqLog), taken - r + 1, taken)
                  /\ alf_queue_count = k - r

\* a dequeue that asked for more than the queue held and got all of it
C6_Witness ==
  \E t \in Threads :
    /\ Returned(t, "dequeue") /\ loc[t].ret = 3 /\ loc[t].n = 4
    /\ Held = 0 /\ Len(deqLog) >= 2

\* ------------------------------------------------------------------ C7
\* C7: one call at a time: what has been dequeued is, in order, the front
\* of what was enqueued, the rest sits in the ring from consumer.head on,
\* and a drained queue has returned every reference enqueued.
C7_RoundTrip ==
  Quiet =>
    LET e == Flat(enqLog)
        d == Flat(deqLog)
    IN  /\ Len(d) <= Len(e)
        /\ d = SubSeq(e, 1, Len(d))
        /\ \A j \in 1..(Len(e) - Len(d)) :
             ring[LoadIndex(consumer.head, j - 1)] = e[Len(d) + j]
        /\ alf_queue_empty => d = e

\* a batch of 3 stored across the end of a size-4 ring came back whole,
\* in a batch of 2 and a batch of 1
C7_Witness ==
  /\ Quiet /\ alf_queue_empty /\ size = 4
  /\ Len(enqLog) >= 2 /\ Len(deqLog) >= 3
  /\ LET b == enqLog[Len(enqLog)]
     IN  b.len = 3 /\ b.start + b.len > size
         /\ deqLog[Len(deqLog) - 1].refs = SubSeq(b.refs, 1, 2)
         /\ deqLog[Len(deqLog)].refs = SubSeq(b.refs, 3, 3)

\* ------------------------------------------------------------------ C8
InFlightDisjoint(log, Covered(_)) ==
  \A a, b \in 1..Len(log) :
    (a < b /\ ~log[a].pub /\ ~log[b].pub)
      => Covered(log[a]) \cap Covered(log[b]) = {}

\* C8: two reservations of the same side, both between their cmpxchg and
\* their tail write, share no ring slot.
C8_Disjoint ==
  /\ InFlightDisjoint(enqLog, StoreSlots)
  /\ InFlightDisjoint(deqLog, LoadSlots)

\* ------------------------------------------------------------------ C9
PublishInOrder(t, log, tail, tail2, start, next) ==
  /\ tail = start
  /\ tail2 = next
  /\ \A k \in 1..(Mine(log, t) - 1) : log[k].pub

\* C9: a tail write finds the tail at the writer's reservation start, sets
\* it to the reservation end, and every earlier reservation of that side
\* has already written the tail.
C9_PublishOrder ==
  [][\A t \in Threads :
       /\ (pc[t] = "e_pub" /\ pc'[t] = "done")
            => PublishInOrder(t, enqLog, producer.tail, producer'.tail,
                              loc[t].p_head, loc[t].p_next)
       /\ (pc[t] = "d_pub" /\ pc'[t] = "done")
            => PublishInOrder(t, deqLog, consumer.tail, consumer'.tail,
                              loc[t].c_head, loc[t].c_next)]_vars

\* ----------------------------------------------------------------- C10
\* C10 as stated: count + space = size - 1 in every reachable state.
C10_BalanceAlways == alf_queue_count + alf_queue_avail_space = size - 1

\* C10 amended: count + space = size - 1 whenever neither side has a
\* reservation awaiting its tail write (head = tail on both sides).
C10_BalancePublished ==
  (producer.head = producer.tail /\ consumer.head = consumer.tail)
    => alf_queue_count + alf_queue_avail_space = size - 1

\* a size-4 ring holding two references across its end, nothing in flight
C10_Witness ==
  /\ Quiet /\ size = 4
  /\ producer.head = producer.tail /\ consumer.head = consumer.tail
  /\ consumer.head = 3 /\ producer.tail = 1
  /\ alf_queue_count = 2 /\ alf_queue_avail_space = 1

\* ----------------------------------------------------------------- C11
\* C11: no ring slot is covered at once by a producer reservation and a
\* consumer reservation that are both between their cmpxchg and their tail
\* write.
C11_CrossExclusive ==
  \A a \in 1..Len(enqLog) : \A b \in 1..Len(deqLog) :
    (~enqLog[a].pub /\ ~deqLog[b].pub)
      => StoreSlots(enqLog[a]) \cap LoadSlots(deqLog[b]) = {}

\* ----------------------------------------------------------------- C12
\* C12: when a consumer's cmpxchg on consumer.head succeeds, every slot of
\* its range holds a store whose enqueue has written producer.tail and
\* that no earlier dequeue has reserved since; and every reference a
\* dequeue loads was written by an enqueue that has written producer.tail.
C12_ReservePublished ==
  [][\A t \in Threads :
       /\ (pc[t] = "d_cas" /\ pc'[t] = "d_load")
            => LoadSlots([start |-> loc[t].c_head, len |-> loc[t].elems])
                 \subseteq fresh
       /\ (pc[t] = "d_load" /\ loc'[t].i = loc[t].i + 1)
            => \E a \in 1..Len(enqLog) :
                 /\ enqLog[a].pub
                 /\ loc'[t].ptr[loc'[t].i] \in Range(enqLog[a].refs)]_vars

\* ----------------------------------------------------------------- C13
HelperDone(call) ==
  \E t \in Threads : pc[t] = "h_done" /\ loc[t].call = call

Helper == loc[CHOOSE t \in Threads : pc[t] = "h_done"]

\* C13: the wrap-check helpers do what the masked helpers do: the same
\* references into the same slots, all inside 0..size-1, and the same
\* loaded sequence.
C13_SimpleIsMask ==
  /\ HelperDone("store") =>
       /\ Range(Helper.simple) = Range(Helper.masked)
       /\ \A w \in Range(Helper.simple) : w.slot \in 0..(size - 1)
  /\ HelperDone("load") => Helper.simple = Helper.masked

\* ----------------------------------------------------------------- C14
\* C14: a dequeue whose clamped count min(available, n) is zero returns 0
\* at once: it is never found at its cmpxchg, its load, its tail wait or
\* its tail write, and when it has returned 0 it has written nothing.
C14_ZeroReturns ==
  \A t \in Threads :
    /\ pc[t] \in {"d_cas", "d_load", "d_pub"} => loc[t].elems >= 1
    /\ (Returned(t, "dequeue") /\ loc[t].ret = 0) => ~pre[t].wrote

\* ----------------------------------------------------------------- C15
\* C15: under weak fairness per thread and finitely many calls, every call
\* that has started eventually returns.
C15_Termination ==
  \A t \in Threads : (pc[t] \notin {"idle", "done"}) ~> (pc[t] = "done")

\* ----------------------------------------------------------------- C16
\* C16: the cursors are free-running 32-bit counters: a reservation or a
\* publish of k elements sets its cursor to (old + k) mod 2^32, which is
\* old + k for the few calls of one behaviour here; the mask is applied
\* only where a cursor is used.
C16_FreeRunning ==
  [][\A t \in Threads :
       /\ (pc[t] = "e_cas" /\ pc'[t] = "e_store")
            => producer'.head = producer.head + loc[t].n
       /\ (pc[t] = "e_pub" /\ pc'[t] = "done")
            => producer'.tail = producer.tail + loc[t].n
       /\ (pc[t] = "d_cas" /\ pc'[t] = "d_load")
            => consumer'.head = consumer.head + loc[t].elems
       /\ (pc[t] = "d_pub" /\ pc'[t] = "done")
            => consumer'.tail = consumer.tail + loc[t].elems]_vars

\* ----------------------------------------------------------------- C17
\* the thread whose call takes the step
Moved(t) == pc'[t] # pc[t] \/ loc'[t] # loc[t]

CallOf(t) == IF pc[t] = "idle" THEN loc'[t].call ELSE loc[t].call

\* C17: a step of alf_mp_enqueue leaves the consumer cursors alone and
\* changes only ring slots of its own reservation; a step of
\* alf_mc_dequeue leaves the producer cursors and the ring alone; a step
\* of alf_queue_empty, _count or _avail_space leaves all of them alone.
C17_SideIsolation ==
  [][\A t \in Threads :
       Moved(t) =>
         /\ CallOf(t) = "enqueue" =>
              /\ consumer' = consumer
              /\ \A s \in DOMAIN ring :
                   ring'[s] # ring[s] =>
                     /\ pc[t] = "e_store"
                     /\ s \in StoreSlots([start |-> loc[t].p_head,
                                          len |-> loc[t].n])
         /\ CallOf(t) = "dequeue" =>
              /\ producer' = producer
              /\ ring' = ring
         /\ CallOf(t) \in ProbeCalls =>
              /\ producer' = producer
              /\ consumer' = consumer
              /\ ring' = ring]_vars

\* an enqueue of the whole capacity was dequeued by one CPU while the other
\* was counting
C17_Witness ==
  \E t, u \in Threads :
    /\ Returned(t, "dequeue") /\ loc[t].ret = size - 1
    /\ Returned(u, "count")

\* ----------------------------------------------------------------- C18
\* C18: with no call in flight, head = tail on both sides and the three
\* introspection functions agree: empty iff count = 0 iff space = size - 1;
\* before the first call all three hold.
C18_QuietConsistent ==
  /\ Quiet =>
       /\ producer.head = producer.tail
       /\ consumer.head = consumer.tail
       /\ alf_queue_empty <=> (alf_queue_count = 0)
       /\ (alf_queue_count = 0) <=> (alf_queue_avail_space = size - 1)
  /\ (enqLog = <<>> /\ deqLog = <<>>) =>
       /\ alf_queue_empty
       /\ alf_queue_count = 0
       /\ alf_queue_avail_space = size - 1

\* ----------------------------------------------------------------- C19
\* the word-by-word copies of a list of memcpy calls: ring slot and 1-based
\* ptr index of each word of a store, of a load
StoreWords(copies) ==
  UNION {{[slot |-> copies[c].dst + j, k |-> copies[c].src + j + 1] :
            j \in 0..(copies[c].cnt - 1)} : c \in DOMAIN copies}

LoadWords(copies) ==
  UNION {{[slot |-> copies[c].src + j, k |-> copies[c].dst + j + 1] :
            j \in 0..(copies[c].cnt - 1)} : c \in DOMAIN copies}

\* no memcpy of the call runs over more words than the ring has
Bounded(copies) == \A c \in DOMAIN copies : copies[c].cnt <= size

MemcpyStoreIsMask ==
  /\ Bounded(Helper.copies)
  /\ StoreWords(Helper.copies) = Range(Helper.masked)

MemcpyLoadIsMask ==
  /\ Bounded(Helper.copies)
  /\ LoadWords(Helper.copies) =
       {[slot |-> LoadIndex(Helper.head, k - 1), k |-> k] : k \in 1..Helper.n}

\* C19: the memcpy helpers are not the masked helpers: storing 2 references
\* at p_head = 3 of an empty size-4 ring (c_tail = 3), and loading 2
\* references at c_head = 3 with p_tail = 1, they copy other words than
\* the masked helpers do.
C19_MemcpyDefective ==
  /\ (HelperDone("store") /\ size = 4 /\ Helper.head = 3
        /\ Helper.tail = 3 /\ Helper.n = 2) => ~MemcpyStoreIsMask
  /\ (HelperDone("load") /\ size = 4 /\ Helper.head = 3
        /\ Helper.tail = 1 /\ Helper.n = 2) => ~MemcpyLoadIsMask

\* the store of C19 has been made: one memcpy of two words to ring[3]
C19_Witness ==
  /\ HelperDone("store") /\ size = 4 /\ Helper.head = 3
  /\ Helper.tail = 3 /\ Helper.n = 2
  /\ Helper.copies = <<[dst |-> 3, src |-> 0, cnt |-> 2]>>

====
